---- MODULE Spec2Model ----
(***************************************************************************)
(* Model of btirme_realtime_python_claude.py: the chunked profanity        *)
(* censoring pipeline (extractor generator, worker thread, driver loop in  *)
(* main, tone overlay, final assembly).                                    *)
(*                                                                         *)
(* Time is counted in ticks of 1/SubMs millisecond, so that the float      *)
(* millisecond values the code truncates with int() have a fractional      *)
(* part.  An audio buffer (pydub AudioSegment) is a run-length encoded     *)
(* sequence of millisecond samples: a run [v, n] stands for n samples,     *)
(* either the samples v, v+1, .. v+n-1 of the original audio or, with      *)
(* v = Tone, n milliseconds of the generated tone over silence.            *)
(*                                                                         *)
(* A Python float keeps 53 significant binary digits and rounds every      *)
(* arithmetic result to them.  Here a float keeps Mantissa significant     *)
(* binary digits of its tick count, rounded the same way (to nearest, ties *)
(* to even).                                                               *)
(***************************************************************************)
EXTENDS Integers, Sequences, FiniteSets, TLC

\* ---------------------------------------------------------------- bounds
SubMs == 2
MaxBufMs == 3
MaxIvs == 2
DurDiv == 4
MaxDurParts == 14
MaxRuns == 2
MaxHalves == 3
Mantissa == 12

\* ------------------------------------------------------ program constants
CHUNK_DURATION == 5
MsPerSec == 1000
THRESHOLD == 90
\* The sample value of the generated tone over silence (no original index).
Tone == 0 - 1

VARIABLES
  ov_pc,      \* beep_over_intervals: "loop" (line 80) | "returned" (line 99)
  ov_in,      \* audio_seg, the argument buffer
  ov_ivs,     \* intervals_ms not yet iterated over
  ov_all,     \* intervals_ms as passed (history)
  ov_out,     \* output
  ex_g,       \* extract_audio_chunks_from_video: the generator's frame
  ex_out,     \* the chunks it has yielded so far (history)
  st_pc,      \* process_audio_chunk, steps 2-4: "words" (line 156) |
              \* "abs" (line 163) | "passed" (line 169)
  st_chunk,   \* chunk_data
  st_words,   \* result["segments"][..]["words"]: word, start, end
  st_abs,     \* words (line 156)
  st_ivs,     \* the intervals passed to beep_over_intervals (lines 171-175)
  pf_pc,      \* is_profane: "called" (line 64) | "returned"
  pf_word,    \* word
  pf_score,   \* what offense_detector(word) does (see Outcomes)
  pf_out,     \* the value returned
  video,            \* duration of the uploaded video (video.duration), ticks
  analysis,         \* st.session_state.analysis (unset reads as FALSE)
  is_processing,    \* the module global of line 39
  processing_queue, \* line 37
  results_queue,    \* line 38
  drv,              \* the script threads running main(): pc and locals
  wrk,              \* the threads running audio_processor_worker
  nruns,            \* workers started so far (threading.Thread(...).start())
  files,            \* the temporary files that exist: [path, ms]
  submitted,        \* history: audio_path of every chunk put on processing_queue
  produced          \* history: audio_path -> number of results put on results_queue

ovars == <<ov_pc, ov_in, ov_ivs, ov_all, ov_out>>
evars == <<ex_g, ex_out>>
svars == <<st_pc, st_chunk, st_words, st_abs, st_ivs>>
fvars == <<pf_pc, pf_word, pf_score, pf_out>>
pvars == <<video, analysis, is_processing, processing_queue, results_queue,
           drv, wrk, nruns, files, submitted, produced>>
vars == <<ov_pc, ov_in, ov_ivs, ov_all, ov_out, ex_g, ex_out,
          st_pc, st_chunk, st_words, st_abs, st_ivs,
          pf_pc, pf_word, pf_score, pf_out,
          video, analysis, is_processing, processing_queue, results_queue,
          drv, wrk, nruns, files, submitted, produced>>

Min(a, b) == IF a <= b THEN a ELSE b
Max(a, b) == IF a >= b THEN a ELSE b

\* ------------------------------------------------------------ AudioSegment
RECURSIVE BufLen(_)
BufLen(b) == IF b = <<>> THEN 0 ELSE Head(b).n + BufLen(Tail(b))

Shift(run, k) == [v |-> IF run.v = Tone THEN Tone ELSE run.v + k, n |-> run.n - k]

RECURSIVE Take(_, _)
Take(b, k) ==
  IF k <= 0 \/ b = <<>> THEN <<>>
  ELSE IF Head(b).n <= k THEN <<Head(b)>> \o Take(Tail(b), k - Head(b).n)
  ELSE <<[Head(b) EXCEPT !.n = k]>>

RECURSIVE Drop(_, _)
Drop(b, k) ==
  IF b = <<>> THEN <<>>
  ELSE IF k <= 0 THEN b
  ELSE IF Head(b).n <= k THEN Drop(Tail(b), k - Head(b).n)
  ELSE <<Shift(Head(b), k)>> \o Tail(b)

\* pydub seg[:ms] and seg[ms:] for ms >= 0: both ends are clipped to len(seg).
SliceTo(b, ms) == Take(b, Min(ms, BufLen(b)))
SliceFrom(b, ms) == Drop(b, Min(ms, BufLen(b)))

RECURSIVE SampleAt(_, _)
SampleAt(b, p) ==
  IF p < Head(b).n THEN (IF Head(b).v = Tone THEN Tone ELSE Head(b).v + p)
  ELSE SampleAt(Tail(b), p - Head(b).n)

Original(len) == IF len = 0 THEN <<>> ELSE <<[v |-> 0, n |-> len]>>
Silent(ms) == <<[v |-> Tone, n |-> ms]>>

\* Python int() of a float number of milliseconds given in ticks.
IntMs(t) == IF t >= 0 THEN t \div SubMs ELSE -((-t) \div SubMs)

\* ------------------------------------------------------------------ float
RECURSIVE Pow2(_)
Pow2(n) == IF n = 0 THEN 1 ELSE 2 * Pow2(n - 1)
\* The binary digits x >= 0 has beyond Mantissa.
RECURSIVE Excess(_)
Excess(x) == IF x < Pow2(Mantissa) THEN 0 ELSE 1 + Excess(x \div 2)
\* x >= 0 rounded to Mantissa significant digits: to nearest, ties to even.
RoundNat(x) ==
  LET u == Pow2(Excess(x))
      q == x \div u
      r == x % u
  IN IF 2 * r > u \/ (2 * r = u /\ q % 2 = 1) THEN (q + 1) * u ELSE q * u
Float(x) == IF x >= 0 THEN RoundNat(x) ELSE 0 - RoundNat(0 - x)
\* a + b and a - b on floats.
FloatAdd(a, b) == Float(a + b)
FloatSub(a, b) == Float(a - b)
\* x * 1000 on a float (or an int) of seconds: the tick count of a number of
\* seconds is that of its milliseconds, and the product is rounded.
Times1000(x) == Float(x)

\* -------------------------------------------------- beep_over_intervals
duration_ms(iv) == Max(0, IntMs(iv[2] - iv[1]))

\* One iteration of the for loop, lines 80-97.
BeepStep(output, iv) ==
  IF duration_ms(iv) <= 0 THEN output
  ELSE SliceTo(output, IntMs(iv[1])) \o Silent(duration_ms(iv))
         \o SliceFrom(output, IntMs(iv[2]))

RECURSIVE beep_over_intervals(_, _)
beep_over_intervals(audio_seg, intervals_ms) ==
  IF intervals_ms = <<>> THEN audio_seg
  ELSE beep_over_intervals(BeepStep(audio_seg, Head(intervals_ms)), Tail(intervals_ms))

\* ------------------------------------------------------------ is_profane
\* Words the transcription may return, and str.lower() on them.
Vocabulary == {"Pompa", "pompa", "lan", "selam"}
\* A lower() that would leave the word as it is.
LowerNot(word) == word
Lower(word) == IF word = "Pompa" THEN "pompa" ELSE word
WordLen(word) == IF word \in {"Pompa", "pompa", "selam"} THEN 5 ELSE 3
\* lines 32-34 (the dotless i of the last entry written as i)
CUSTOM_PROFANE == {"fenasik", "kerilim", "pompa", "fenasik kerilim", "donaltip"}
\* What offense_detector(word) does: raise, return scores without a
\* PROFANITY label, or return a PROFANITY score (in hundredths).
Raises == 0 - 2
NoLabel == 0 - 1
Outcomes == {Raises, NoLabel} \cup 0..100

\* lines 64-71; next() on an empty generator raises StopIteration, which
\* line 70 catches like any other exception.
is_profane(word, offense_detector) ==
  IF Lower(word) \in CUSTOM_PROFANE THEN TRUE
  ELSE IF offense_detector[word] \in {Raises, NoLabel} THEN FALSE
  ELSE offense_detector[word] >= THRESHOLD

\* ----------------------------------------------------- process_audio_chunk
NoPath == <<"None">>
FailStages == {"load", "resample", "transcribe", "overlay", "export"}
CensoredPath(chunk_data) == <<"cens", chunk_data.audio_path[2], chunk_data.chunk_id>>

\* lines 156-161: chunk-relative word offsets to absolute milliseconds.
AbsWords(chunk_data, words) ==
  [i \in 1..Len(words) |->
     [word |-> words[i].word,
      start_ms |-> Times1000(FloatAdd(words[i].start, chunk_data.start_time)),
      end_ms |-> Times1000(FloatAdd(words[i].end, chunk_data.start_time))]]

RECURSIVE ProfaneOnly(_, _)
ProfaneOnly(ws, det) ==
  IF ws = <<>> THEN <<>>
  ELSE (IF is_profane(Head(ws).word, det) THEN <<Head(ws)>> ELSE <<>>)
         \o ProfaneOnly(Tail(ws), det)

\* lines 171-175: back to chunk-relative intervals for the overlay.
LocalIntervals(chunk_data, profane) ==
  [i \in 1..Len(profane) |->
     <<FloatSub(profane[i].start_ms, Times1000(chunk_data.start_time)),
       FloatSub(profane[i].end_ms, Times1000(chunk_data.start_time))>>]

\* lines 179-182: a token is a word, or a run of WordLen(word) stars.
MaskedText(ws, det) ==
  [i \in 1..Len(ws) |->
     IF is_profane(ws[i].word, det)
     THEN [t |-> "*", n |-> WordLen(ws[i].word)]
     ELSE [t |-> ws[i].word, n |-> 0]]

\* line 139: the chunk's WAV as a buffer of whole milliseconds.
ChunkSegment(chunk_data) ==
  Original((chunk_data.end_time - chunk_data.start_time) \div SubMs)

\* lines 169-176
CensoredSeg(chunk_data, words, det) ==
  beep_over_intervals(ChunkSegment(chunk_data),
    LocalIntervals(chunk_data, ProfaneOnly(AbsWords(chunk_data, words), det)))

\* A fail-soft result that would still name a censored file.
FailedResultKeepsPath(chunk_data) ==
  [audio_path |-> chunk_data.audio_path, chunk_id |-> chunk_data.chunk_id,
   start_time |-> chunk_data.start_time, end_time |-> chunk_data.end_time,
   text |-> "Hata", bad_words |-> {}, masked_text |-> <<>>,
   censored_audio_path |-> CensoredPath(chunk_data)]

\* lines 199-208: the result of a chunk whose processing raised (the unlink
\* of lines 200-201, of a file the program wrote itself, does not raise).
FailedResult(chunk_data) ==
  [audio_path |-> chunk_data.audio_path, chunk_id |-> chunk_data.chunk_id,
   start_time |-> chunk_data.start_time, end_time |-> chunk_data.end_time,
   text |-> "Hata", bad_words |-> {}, masked_text |-> <<>>,
   censored_audio_path |-> NoPath]

\* lines 191-197
CensoredResult(chunk_data, words, det) ==
  [audio_path |-> chunk_data.audio_path, chunk_id |-> chunk_data.chunk_id,
   start_time |-> chunk_data.start_time, end_time |-> chunk_data.end_time,
   text |-> "text",
   bad_words |-> {words[i].word : i \in {j \in 1..Len(words) :
                                           is_profane(words[j].word, det)}},
   masked_text |-> MaskedText(AbsWords(chunk_data, words), det),
   censored_audio_path |-> CensoredPath(chunk_data)]

\* lines 133-208; fault names the step of the try block that raises ("ok":
\* none does).
process_audio_chunk(chunk_data, words, det, fault) ==
  IF fault \in FailStages THEN FailedResult(chunk_data)
  ELSE CensoredResult(chunk_data, words, det)

\* The temporary files process_audio_chunk leaves behind it: the censored
\* WAV (line 185 creates it before export writes it), never the raw one
\* (lines 190 and 200-201).
FilesAfterProcess(fs, chunk_data, words, det, fault) ==
  {f \in fs : f.path # chunk_data.audio_path}
    \cup (IF fault = "ok"
          THEN {[path |-> CensoredPath(chunk_data),
                 ms |-> BufLen(CensoredSeg(chunk_data, words, det))]}
          ELSE IF fault = "export"
          THEN {[path |-> CensoredPath(chunk_data), ms |-> 0]}
          ELSE {})

\* -------------------------------------------------- combine_audio_segments
Exists(fs, p) == \E f \in fs : f.path = p
FileMs(fs, p) == (CHOOSE f \in fs : f.path = p).ms

\* lines 235-239: the segments appended to combined, in order; a path that
\* is None or names no file is skipped, a file read is unlinked.
RECURSIVE combine_audio_segments(_, _)
combine_audio_segments(paths, fs) ==
  IF paths = <<>> THEN <<>>
  ELSE IF Head(paths) # NoPath /\ Exists(fs, Head(paths))
    THEN <<[path |-> Head(paths), ms |-> FileMs(fs, Head(paths))]>>
           \o combine_audio_segments(Tail(paths),
                 {f \in fs : f.path # Head(paths)})
  ELSE combine_audio_segments(Tail(paths), fs)

RECURSIVE TrackMs(_)
TrackMs(track) == IF track = <<>> THEN 0 ELSE Head(track).ms + TrackMs(Tail(track))

FilesAfterCombine(paths, fs) ==
  {f \in fs : \A i \in 1..Len(paths) : paths[i] # f.path}

\* -------------------------------------- extract_audio_chunks_from_video
\* One window of CHUNK_DURATION seconds, in ticks.
Window == CHUNK_DURATION * MsPerSec * SubMs

\* The generator's frame before its first next(): lines 109-112 not yet run.
GenFresh(D) == [st |-> "fresh", current |-> 0, duration |-> D]

GenLive(g) == g.st \in {"fresh", "running"}
\* A chunk end that would not be clipped to the duration.
GenEndNoClip(g) == g.current + Window
\* line 114
GenEnd(g) == Min(g.current + Window, g.duration)
\* lines 117-122; the temporary file's name stands for (run, chunk_id).
GenChunk(run, g) ==
  [audio_path |-> <<"raw", run, g.current \div Window>>,
   chunk_id |-> g.current \div Window,
   start_time |-> g.current,
   end_time |-> GenEnd(g)]

ChunkDur(c) == c.end_time - c.start_time

\* One next() on the generator.  readable = FALSE: VideoFileClip, subclip,
\* write_audiofile or close raises; line 125 catches it and the generator
\* returns (StopIteration) like an exhausted one.
extract_audio_chunks_from_video(run, g, readable) ==
  IF ~readable THEN [g |-> [g EXCEPT !.st = "failed"], out |-> <<>>]
  ELSE IF g.current < g.duration
    THEN [g |-> [g EXCEPT !.st = "running", !.current = GenEnd(g)],
          out |-> <<GenChunk(run, g)>>]
  ELSE [g |-> [g EXCEPT !.st = "done"], out |-> <<>>]

InitExtractIdle == ex_g = GenFresh(0) /\ ex_out = <<>>

\* ------------------------------------------------------------ the pipeline
\* The script threads that run main(): Streamlit runs the script in a thread
\* at every upload and every button press.
Drivers == {"d1"}
Sessions == {"d1", "d2"}
Workers == 1..MaxRuns
\* None, the sentinel of line 315, shaped like a chunk.
NoneItem == [audio_path |-> NoPath, chunk_id |-> -1, start_time |-> 0, end_time |-> 0]

\* A get that would leave the item on the queue.
QueueGetPeek(q) == q
\* queue.Queue.get (lines 220 and 303): the queue once its head is taken.
QueueGet(q) == Tail(q)

\* A get that would wait for an item for ever.
GetBlocks(q) == FALSE
\* queue.Queue.get(timeout=...) (lines 220 and 303) raises queue.Empty: no
\* item came within the timeout.
GetTimesOut(q) == q = <<>>

IdleDriver ==
  [pc |-> "idle", run |-> 0, gen |-> GenFresh(0), chunk |-> NoneItem,
   combined_paths |-> <<>>, final |-> <<>>,
   broke |-> FALSE]
NoWorker == [pc |-> "unborn", chunk |-> NoneItem, fault |-> "ok"]

PipelineDurations == {MaxHalves * (Window \div 2)}
SessionsDurations == {Window \div 2}
\* What whisper_model.transcribe returns for the chunks of the uploaded
\* video: the words with their chunk-relative offsets w["start"] * 1000,
\* w["end"] * 1000 in ticks.  Its first chunk holds two words, the second of
\* them profane.
PipelineTranscript(chunk_data) ==
  IF chunk_data.chunk_id = 0
  THEN <<[word |-> "selam", start |-> 300 * SubMs, end |-> 700 * SubMs],
         [word |-> "lan", start |-> 1200 * SubMs, end |-> 1500 * SubMs]>>
  ELSE <<>>
PipelineDetector ==
  [w \in Vocabulary |-> IF w = "lan" THEN 95 ELSE IF w = "selam" THEN 10 ELSE Raises]

InitPipelineIdle ==
  /\ video = 0 /\ analysis = FALSE /\ is_processing = FALSE
  /\ processing_queue = <<>> /\ results_queue = <<>>
  /\ drv = [d \in Drivers |-> IdleDriver]
  /\ wrk = [w \in Workers |-> NoWorker]
  /\ nruns = 0 /\ files = {} /\ submitted = {} /\ produced = <<>>
InitProfaneIdle ==
  /\ pf_pc = "idle" /\ pf_word = "" /\ pf_score = NoLabel /\ pf_out = FALSE
InitStampIdle ==
  /\ st_pc = "idle" /\ st_chunk = NoneItem /\ st_words = <<>>
  /\ st_abs = <<>> /\ st_ivs = <<>>
InitOverlayIdle ==
  /\ ov_pc = "idle" /\ ov_in = <<>> /\ ov_ivs = <<>> /\ ov_all = <<>>
  /\ ov_out = <<>>

SourceDurations == {k * (Window \div DurDiv) : k \in 1..MaxDurParts}

InitExtract ==
  /\ InitOverlayIdle /\ InitPipelineIdle /\ InitStampIdle /\ InitProfaneIdle
  /\ ex_g \in {GenFresh(D) : D \in SourceDurations}
  /\ ex_out = <<>>

\* next() yields a chunk (line 117).
ExtractYield ==
  /\ GenLive(ex_g) /\ ex_g.current < ex_g.duration
  /\ ex_g' = extract_audio_chunks_from_video(0, ex_g, TRUE).g
  /\ ex_out' = ex_out \o extract_audio_chunks_from_video(0, ex_g, TRUE).out
  /\ UNCHANGED <<ovars, pvars, svars, fvars>>

\* The while loop ends (line 113), the clips are closed (line 124).
ExtractStop ==
  /\ GenLive(ex_g) /\ ex_g.current >= ex_g.duration
  /\ ex_g' = extract_audio_chunks_from_video(0, ex_g, TRUE).g
  /\ ex_out' = ex_out \o extract_audio_chunks_from_video(0, ex_g, TRUE).out
  /\ UNCHANGED <<ovars, pvars, svars, fvars>>

\* The media source raises, while it is opened or read (lines 125-127).
ExtractFail ==
  /\ GenLive(ex_g)
  /\ ex_g' = extract_audio_chunks_from_video(0, ex_g, FALSE).g
  /\ ex_out' = ex_out \o extract_audio_chunks_from_video(0, ex_g, FALSE).out
  /\ UNCHANGED <<ovars, pvars, svars, fvars>>

NextExtract == ExtractYield \/ ExtractStop \/ ExtractFail

SpecExtract == InitExtract /\ [][NextExtract]_vars

\* ------------------------------------------- specification of the overlay
MaxT == (MaxBufMs + 1) * SubMs
Intervals == {iv \in (0..MaxT) \X (0..MaxT) : iv[1] <= iv[2]}
IntervalLists == UNION {[1..k -> Intervals] : k \in 0..MaxIvs}

InitOverlay ==
  /\ InitExtractIdle /\ InitPipelineIdle /\ InitStampIdle /\ InitProfaneIdle
  /\ ov_pc = "loop"
  /\ ov_in \in {Original(len) : len \in 1..MaxBufMs}
  /\ ov_all \in IntervalLists
  /\ ov_ivs = ov_all
  /\ ov_out = ov_in

OverlaySkip ==
  /\ ov_pc = "loop" /\ ov_ivs # <<>>
  /\ duration_ms(Head(ov_ivs)) <= 0
  /\ ov_out' = BeepStep(ov_out, Head(ov_ivs))
  /\ ov_ivs' = Tail(ov_ivs)
  /\ UNCHANGED <<ov_pc, ov_in, ov_all, evars, pvars, svars, fvars>>

OverlaySplice ==
  /\ ov_pc = "loop" /\ ov_ivs # <<>>
  /\ duration_ms(Head(ov_ivs)) > 0
  /\ ov_out' = BeepStep(ov_out, Head(ov_ivs))
  /\ ov_ivs' = Tail(ov_ivs)
  /\ UNCHANGED <<ov_pc, ov_in, ov_all, evars, pvars, svars, fvars>>

OverlayReturn ==
  /\ ov_pc = "loop" /\ ov_ivs = <<>>
  /\ ov_pc' = "returned"
  /\ UNCHANGED <<ov_in, ov_ivs, ov_all, ov_out, evars, pvars, svars, fvars>>

NextOverlay == OverlaySkip \/ OverlaySplice \/ OverlayReturn

SpecOverlay == InitOverlay /\ [][NextOverlay]_vars

\* --------------------------------------------- main(): script thread d
\* Each action is the thread's steps up to and including its next access to
\* a queue, to is_processing or to the session flag.
InitPipeline ==
  /\ InitOverlayIdle /\ InitExtractIdle /\ InitStampIdle /\ InitProfaneIdle
  /\ video \in PipelineDurations
  /\ analysis = FALSE /\ is_processing = FALSE
  /\ processing_queue = <<>> /\ results_queue = <<>>
  /\ drv = [d \in Drivers |-> IdleDriver]
  /\ wrk = [w \in Workers |-> NoWorker]
  /\ nruns = 0 /\ files = {} /\ submitted = {} /\ produced = <<>>

\* lines 276-279: what the two buttons do to the session flag.
SessionFlag(button, flag) ==
  IF button = "start" THEN TRUE ELSE IF button = "stop" THEN FALSE ELSE flag

\* A start test that would not look at is_processing.
MayStartAnyway(flag, processing) == flag

\* lines 286 and 288: whether this script run starts a pipeline run.
MayStart(flag, processing) == flag /\ ~processing

Buttons == {"start", "stop", "none"}

\* Script thread d exists and is at pc.
At(d, pc) == d \in DOMAIN drv /\ drv[d].pc = pc

\* A script run (an upload, a button) in which lines 286-288 are false: main
\* falls through to the sidebar and returns.
RerunSkip(d) ==
  /\ At(d, "idle")
  /\ \E button \in Buttons :
       /\ ~MayStart(SessionFlag(button, analysis), is_processing)
       /\ analysis' = SessionFlag(button, analysis)
  /\ UNCHANGED drv
  /\ UNCHANGED <<video, is_processing, processing_queue, results_queue, wrk,
                 nruns, files, submitted, produced, ovars, evars, svars, fvars>>

\* A script run in which lines 286-288 are true: lines 289-296 start the
\* worker and the run.  (The test of line 288 and the assignment of line 289
\* are taken as one step.)
RerunPass(d) ==
  /\ At(d, "idle")
  /\ nruns < MaxRuns
  /\ \E button \in Buttons :
       /\ MayStart(SessionFlag(button, analysis), is_processing)
       /\ analysis' = SessionFlag(button, analysis)
  /\ is_processing' = TRUE
  /\ nruns' = nruns + 1
  /\ wrk' = [wrk EXCEPT ![nruns + 1] = [NoWorker EXCEPT !.pc = "head"]]
  /\ drv' = [drv EXCEPT ![d] = [IdleDriver EXCEPT !.pc = "next",
                                  !.run = nruns + 1, !.gen = GenFresh(video)]]
  /\ UNCHANGED <<video, processing_queue, results_queue, files, submitted,
                 produced, ovars, evars, svars, fvars>>

\* lines 298-299: next(chunk_gen) yields a chunk, whose WAV line 116 has
\* written, and the session flag is read as on.
DrvYield(d) ==
  /\ At(d, "next")
  /\ GenLive(drv[d].gen) /\ drv[d].gen.current < drv[d].gen.duration
  /\ analysis
  /\ LET r == extract_audio_chunks_from_video(drv[d].run, drv[d].gen, TRUE)
     IN /\ drv' = [drv EXCEPT ![d].gen = r.g, ![d].chunk = r.out[1],
                              ![d].pc = "put"]
        /\ files' = files \cup {[path |-> r.out[1].audio_path,
                                  ms |-> ChunkDur(r.out[1]) \div SubMs]}
  /\ UNCHANGED <<video, analysis, is_processing, processing_queue,
                 results_queue, wrk, nruns, submitted, produced, ovars, evars, svars, fvars>>

\* line 301: the chunk is put on the work queue.
DrvSubmit(d) ==
  /\ At(d, "put")
  /\ processing_queue' = Append(processing_queue, drv[d].chunk)
  /\ submitted' = submitted \cup {drv[d].chunk.audio_path}
  /\ drv' = [drv EXCEPT ![d].pc = "get"]
  /\ UNCHANGED <<video, analysis, is_processing, results_queue, wrk, nruns,
                 files, produced, ovars, evars, svars, fvars>>

\* lines 298-300 and 314: a chunk is yielded, the session flag is off, the
\* loop is left.
DrvBreak(d) ==
  /\ At(d, "next")
  /\ GenLive(drv[d].gen) /\ drv[d].gen.current < drv[d].gen.duration
  /\ ~analysis
  /\ LET r == extract_audio_chunks_from_video(drv[d].run, drv[d].gen, TRUE)
     IN /\ drv' = [drv EXCEPT ![d].gen = r.g, ![d].broke = TRUE,
                              ![d].pc = "sentinel"]
        /\ files' = files \cup {[path |-> r.out[1].audio_path,
                                  ms |-> ChunkDur(r.out[1]) \div SubMs]}
  /\ is_processing' = FALSE
  /\ UNCHANGED <<video, analysis, processing_queue, results_queue, wrk,
                 nruns, submitted, produced, ovars, evars, svars, fvars>>

\* lines 298 and 314: the generator is exhausted and the for loop ends.
DrvExhausted(d) ==
  /\ At(d, "next")
  /\ GenLive(drv[d].gen) /\ drv[d].gen.current >= drv[d].gen.duration
  /\ drv' = [drv EXCEPT
       ![d].gen = extract_audio_chunks_from_video(drv[d].run, drv[d].gen, TRUE).g,
       ![d].pc = "sentinel"]
  /\ is_processing' = FALSE
  /\ UNCHANGED <<video, analysis, processing_queue, results_queue, wrk,
                 nruns, files, submitted, produced, ovars, evars, svars, fvars>>

\* lines 298 and 314: the source raises inside the generator; lines 125-127
\* report it and return, and the for loop ends as it does on exhaustion.
DrvSourceFail(d) ==
  /\ At(d, "next")
  /\ GenLive(drv[d].gen)
  /\ drv' = [drv EXCEPT
       ![d].gen = extract_audio_chunks_from_video(drv[d].run, drv[d].gen, FALSE).g,
       ![d].pc = "sentinel"]
  /\ is_processing' = FALSE
  /\ UNCHANGED <<video, analysis, processing_queue, results_queue, wrk,
                 nruns, files, submitted, produced, ovars, evars, svars, fvars>>

\* lines 303-309: a result arrives within the 10 seconds.
DrvGet(d) ==
  /\ At(d, "get")
  /\ results_queue # <<>>
  /\ results_queue' = QueueGet(results_queue)
  /\ drv' = [drv EXCEPT
       ![d].combined_paths = Append(@, Head(results_queue).censored_audio_path),
       ![d].pc = "next"]
  /\ UNCHANGED <<video, analysis, is_processing, processing_queue, wrk,
                 nruns, files, submitted, produced, ovars, evars, svars, fvars>>

\* lines 310-311: queue.Empty after 10 seconds.
DrvTimeout(d) ==
  /\ At(d, "get")
  /\ GetTimesOut(results_queue)
  /\ drv' = [drv EXCEPT ![d].pc = "next"]
  /\ UNCHANGED <<video, analysis, is_processing, processing_queue,
                 results_queue, wrk, nruns, files, submitted, produced,
                 ovars, evars, svars, fvars>>

\* lines 315-318: the sentinel is put, then combine_audio_segments runs.
DrvCombine(d) ==
  /\ At(d, "sentinel")
  /\ processing_queue' = Append(processing_queue, NoneItem)
  /\ drv' = [drv EXCEPT
       ![d].final = combine_audio_segments(drv[d].combined_paths, files),
       ![d].pc = "done"]
  /\ files' = FilesAfterCombine(drv[d].combined_paths, files)
  /\ UNCHANGED <<video, analysis, is_processing, results_queue, wrk, nruns,
                 submitted, produced, ovars, evars, svars, fvars>>

\* lines 319-326: the track is shown and main returns.
DrvFinish(d) ==
  /\ At(d, "done")
  /\ drv' = [drv EXCEPT ![d] = IdleDriver]
  /\ UNCHANGED <<video, analysis, is_processing, processing_queue,
                 results_queue, wrk, nruns, files, submitted, produced,
                 ovars, evars, svars, fvars>>

\* ------------------------------------ audio_processor_worker: thread w
\* lines 221-223: what the worker does with the item it got.
AfterGet(item) == IF item = NoneItem THEN "broke" ELSE "proc"
\* lines 224-226 and 218: after an item, or an empty get, back to the test.
AfterItem == "head"
\* line 218
LoopTest(processing) == IF processing THEN "get" ELSE "ended"

Count(path) == IF path \in DOMAIN produced THEN produced[path] ELSE 0

\* lines 217-218, is_processing read as True
WContinue(w) ==
  /\ wrk[w].pc = "head"
  /\ is_processing
  /\ wrk' = [wrk EXCEPT ![w].pc = LoopTest(is_processing)]
  /\ UNCHANGED <<video, analysis, is_processing, processing_queue,
                 results_queue, drv, nruns, files, submitted, produced,
                 ovars, evars, svars, fvars>>

\* lines 217-218, is_processing read as False: the thread ends.
WExitFlag(w) ==
  /\ wrk[w].pc = "head"
  /\ ~is_processing
  /\ wrk' = [wrk EXCEPT ![w].pc = LoopTest(is_processing)]
  /\ UNCHANGED <<video, analysis, is_processing, processing_queue,
                 results_queue, drv, nruns, files, submitted, produced,
                 ovars, evars, svars, fvars>>

\* lines 220-223: a chunk is dequeued; fault is the step of
\* process_audio_chunk that will raise on it ("ok": none).
WTake(w) ==
  /\ wrk[w].pc = "get"
  /\ processing_queue # <<>> /\ Head(processing_queue) # NoneItem
  /\ processing_queue' = QueueGet(processing_queue)
  /\ \E fault \in FailStages \cup {"ok"} :
       wrk' = [wrk EXCEPT ![w].pc = AfterGet(Head(processing_queue)),
                          ![w].chunk = Head(processing_queue),
                          ![w].fault = fault]
  /\ UNCHANGED <<video, analysis, is_processing, results_queue, drv, nruns,
                 files, submitted, produced, ovars, evars, svars, fvars>>

\* lines 220-222: the sentinel is dequeued and the loop is left.
WExitSentinel(w) ==
  /\ wrk[w].pc = "get"
  /\ processing_queue # <<>> /\ Head(processing_queue) = NoneItem
  /\ processing_queue' = QueueGet(processing_queue)
  /\ wrk' = [wrk EXCEPT ![w].pc = AfterGet(Head(processing_queue))]
  /\ UNCHANGED <<video, analysis, is_processing, results_queue, drv, nruns,
                 files, submitted, produced, ovars, evars, svars, fvars>>

\* lines 225-226: queue.Empty after one second.
WTimeout(w) ==
  /\ wrk[w].pc = "get"
  /\ GetTimesOut(processing_queue)
  /\ wrk' = [wrk EXCEPT ![w].pc = AfterItem]
  /\ UNCHANGED <<video, analysis, is_processing, processing_queue,
                 results_queue, drv, nruns, files, submitted, produced,
                 ovars, evars, svars, fvars>>

\* lines 223-224: the chunk is processed and its result is put.
WProcess(w) ==
  /\ wrk[w].pc = "proc"
  /\ LET c == wrk[w].chunk
           fault == wrk[w].fault
           words == PipelineTranscript(c)
           res == process_audio_chunk(c, words, PipelineDetector, fault)
       IN /\ results_queue' = Append(results_queue, res)
          /\ files' = FilesAfterProcess(files, c, words, PipelineDetector, fault)
          /\ produced' = (c.audio_path :> (Count(c.audio_path) + 1)) @@ produced
  /\ wrk' = [wrk EXCEPT ![w] = [NoWorker EXCEPT !.pc = AfterItem]]
  /\ UNCHANGED <<video, analysis, is_processing, processing_queue, drv,
                 nruns, submitted, ovars, evars, svars, fvars>>

\* A script run started by a button press during this one, in which lines
\* 286-288 are false: lines 271-288.
Request ==
  /\ \E button \in Buttons :
       /\ ~MayStart(SessionFlag(button, analysis), is_processing)
       /\ analysis' = SessionFlag(button, analysis)
  /\ UNCHANGED <<video, is_processing, processing_queue, results_queue, drv,
                 wrk, nruns, files, submitted, produced, ovars, evars, svars, fvars>>

NextSessions ==
  \/ \E d \in Sessions :
       \/ RerunSkip(d) \/ RerunPass(d)
       \/ DrvYield(d) \/ DrvSubmit(d) \/ DrvBreak(d) \/ DrvExhausted(d) \/ DrvSourceFail(d)
       \/ DrvGet(d) \/ DrvTimeout(d) \/ DrvCombine(d) \/ DrvFinish(d)
  \/ \E w \in Workers :
       \/ WContinue(w) \/ WExitFlag(w)
       \/ WTake(w) \/ WExitSentinel(w) \/ WTimeout(w) \/ WProcess(w)

\* One script thread runs the pipeline; the other script runs only set the
\* session flag.
Next == NextSessions \/ Request

Spec == InitPipeline /\ [][Next]_vars

\* A worker alone, draining a work queue that holds every chunk of the video
\* while the driver waits in results_queue.get (line 303) for the last one.
RECURSIVE AllChunks(_, _)
AllChunks(run, g) ==
  IF g.current >= g.duration THEN <<>>
  ELSE extract_audio_chunks_from_video(run, g, TRUE).out
         \o AllChunks(run, extract_audio_chunks_from_video(run, g, TRUE).g)

InitWorker ==
  /\ InitOverlayIdle /\ InitExtractIdle /\ InitStampIdle /\ InitProfaneIdle
  /\ video \in SourceDurations
  /\ analysis = TRUE /\ is_processing = TRUE
  /\ processing_queue = AllChunks(1, GenFresh(video))
  /\ results_queue = <<>>
  /\ drv = [d \in Drivers |->
             [IdleDriver EXCEPT !.pc = "get", !.run = 1,
                !.gen = [st |-> "running", current |-> video, duration |-> video]]]
  /\ wrk = [w \in Workers |-> IF w = 1 THEN [NoWorker EXCEPT !.pc = "head"]
                                        ELSE NoWorker]
  /\ nruns = 1
  /\ files = {[path |-> processing_queue[i].audio_path,
               ms |-> ChunkDur(processing_queue[i]) \div SubMs] :
               i \in 1..Len(processing_queue)}
  /\ submitted = {processing_queue[i].audio_path : i \in 1..Len(processing_queue)}
  /\ produced = <<>>

NextWorker ==
  \E w \in Workers : WContinue(w) \/ WTake(w) \/ WTimeout(w) \/ WProcess(w)

SpecWorker == InitWorker /\ [][NextWorker]_vars

\* ------------------------- process_audio_chunk, steps 2 to 4 (lines 151-176)
\* The chunks of a 12 second source, and one transcribed word in a chunk:
\* its offsets from the chunk's start (w["start"], w["end"]) are floats.
StampSource == 12 * MsPerSec * SubMs
StampOffsets ==
  {x \in {0, 1, 2, 3, 345 * SubMs, 1200 * SubMs, 1500 * SubMs, 2000 * SubMs - 1} :
     Float(x) = x}
StampSpans == {sp \in StampOffsets \X StampOffsets : sp[1] <= sp[2]}
StampWords ==
  {<<[word |-> w, start |-> sp[1], end |-> sp[2]]>> :
     w \in {"lan", "selam"}, sp \in StampSpans}

InitStamp ==
  /\ InitOverlayIdle /\ InitExtractIdle /\ InitPipelineIdle /\ InitProfaneIdle
  /\ st_pc = "words"
  /\ st_chunk \in {AllChunks(1, GenFresh(StampSource))[i] :
                     i \in 1..Len(AllChunks(1, GenFresh(StampSource)))}
  /\ st_words \in StampWords
  /\ st_abs = <<>> /\ st_ivs = <<>>

\* lines 156-161
StampAbs ==
  /\ st_pc = "words"
  /\ st_abs' = AbsWords(st_chunk, st_words)
  /\ st_pc' = "abs"
  /\ UNCHANGED <<st_chunk, st_words, st_ivs, ovars, evars, pvars, fvars>>

\* lines 164-176
StampPass ==
  /\ st_pc = "abs"
  /\ st_ivs' = LocalIntervals(st_chunk, ProfaneOnly(st_abs, PipelineDetector))
  /\ st_pc' = "passed"
  /\ UNCHANGED <<st_chunk, st_words, st_abs, ovars, evars, pvars, fvars>>

NextStamp == StampAbs \/ StampPass

SpecStamp == InitStamp /\ [][NextStamp]_vars

\* ------------------------------------------------- is_profane (lines 64-71)
\* The classifier treats every word alike: offense_detector(word) does pf_score.
ProfaneDetector == [w \in Vocabulary |-> pf_score]

InitProfane ==
  /\ InitOverlayIdle /\ InitExtractIdle /\ InitPipelineIdle /\ InitStampIdle
  /\ pf_pc = "called"
  /\ pf_word \in Vocabulary
  /\ pf_score \in Outcomes
  /\ pf_out = FALSE

\* lines 65-66: the lower-cased word is in the lexicon.
ProfaneLexicon ==
  /\ pf_pc = "called"
  /\ Lower(pf_word) \in CUSTOM_PROFANE
  /\ pf_out' = is_profane(pf_word, ProfaneDetector)
  /\ pf_pc' = "returned"
  /\ UNCHANGED <<pf_word, pf_score, ovars, evars, pvars, svars>>

\* lines 67-69: the classifier returns a PROFANITY score.
ProfaneScore ==
  /\ pf_pc = "called"
  /\ Lower(pf_word) \notin CUSTOM_PROFANE
  /\ pf_score \notin {Raises, NoLabel}
  /\ pf_out' = is_profane(pf_word, ProfaneDetector)
  /\ pf_pc' = "returned"
  /\ UNCHANGED <<pf_word, pf_score, ovars, evars, pvars, svars>>

\* lines 70-71: the classifier raises, or next() finds no PROFANITY label.
ProfaneExcept ==
  /\ pf_pc = "called"
  /\ Lower(pf_word) \notin CUSTOM_PROFANE
  /\ pf_score \in {Raises, NoLabel}
  /\ pf_out' = is_profane(pf_word, ProfaneDetector)
  /\ pf_pc' = "returned"
  /\ UNCHANGED <<pf_word, pf_score, ovars, evars, pvars, svars>>

NextProfane == ProfaneLexicon \/ ProfaneScore \/ ProfaneExcept

SpecProfane == InitProfane /\ [][NextProfane]_vars

\* Two script threads, each of which may start a run, on a one-chunk video.
InitSessions ==
  /\ InitOverlayIdle /\ InitExtractIdle /\ InitStampIdle /\ InitProfaneIdle
  /\ video \in SessionsDurations
  /\ analysis = FALSE /\ is_processing = FALSE
  /\ processing_queue = <<>> /\ results_queue = <<>>
  /\ drv = [d \in Sessions |-> IdleDriver]
  /\ wrk = [w \in Workers |-> NoWorker]
  /\ nruns = 0 /\ files = {} /\ submitted = {} /\ produced = <<>>

SpecSessions == InitSessions /\ [][NextSessions]_vars

\* ------------------------------------------------------------ claims
Exited(w) == wrk[w].pc \in {"ended", "broke"}
\* No script thread is inside a run and no worker thread is alive.
Quiescent ==
  /\ \A d \in DOMAIN drv : drv[d].pc = "idle"
  /\ \A w \in Workers : wrk[w].pc = "unborn" \/ Exited(w)

\* C1: every chunk put on processing_queue gets exactly one result put on
\* results_queue: never two, and one once the driver has returned and the
\* workers have ended.
C1_ExactlyOnce ==
  /\ \A p \in DOMAIN produced : produced[p] <= 1
  /\ Quiescent => \A p \in submitted : Count(p) = 1

\* The chunk id of a segment of the final track (its file name stands for
\* the run and the chunk id).
SegId(seg) == seg.path[3]

\* C2: the chunk ids of the segments concatenated into the final track are
\* strictly ascending.
C2_AssemblyOrder ==
  \A d \in DOMAIN drv :
    drv[d].pc = "done" =>
      \A i \in 1..(Len(drv[d].final) - 1) :
        SegId(drv[d].final[i]) < SegId(drv[d].final[i + 1])

\* C3: at the end of a run that was not stopped and read its source to the
\* end, the final track lasts as long as the source.
C3_TrackDuration ==
  \A d \in DOMAIN drv :
    (drv[d].pc = "done" /\ ~drv[d].broke /\ drv[d].gen.st = "done")
      => TrackMs(drv[d].final) = drv[d].gen.duration \div SubMs

\* Interval iv (in ticks) ends inside the argument buffer.
InsideBuffer(iv) == iv[2] <= BufLen(ov_in) * SubMs
Disjoint(a, b) == a[2] <= b[1] \/ b[2] <= a[1]
NonOverlapping(ivs) ==
  \A i, j \in 1..Len(ivs) : i # j => Disjoint(ivs[i], ivs[j])
\* Millisecond position p lies wholly inside / wholly outside interval iv.
PosInside(p, iv) == iv[1] <= p * SubMs /\ (p + 1) * SubMs <= iv[2]
PosOutside(p, iv) == (p + 1) * SubMs <= iv[1] \/ iv[2] <= p * SubMs

\* C4: beep_over_intervals returns a buffer exactly as long as its argument,
\* here for the intervals with start_ms <= end_ms that lie inside the buffer
\* (the CensorIntervals of the data model).
C4_LengthPreserved ==
  (ov_pc = "returned" /\ \A i \in 1..Len(ov_all) : InsideBuffer(ov_all[i]))
    => BufLen(ov_out) = BufLen(ov_in)

\* C5: for pairwise non-overlapping intervals inside the buffer, every
\* position outside all intervals holds the argument's audio and every
\* position inside an interval holds the tone.
C5_OverlayFrame ==
  (ov_pc = "returned" /\ NonOverlapping(ov_all)
     /\ \A i \in 1..Len(ov_all) : InsideBuffer(ov_all[i]))
  => \A p \in 0..(BufLen(ov_in) - 1) :
       /\ (\A i \in 1..Len(ov_all) : PosOutside(p, ov_all[i]))
            => (p < BufLen(ov_out) /\ SampleAt(ov_out, p) = SampleAt(ov_in, p))
       /\ (\E i \in 1..Len(ov_all) : PosInside(p, ov_all[i]))
            => (p < BufLen(ov_out) /\ SampleAt(ov_out, p) = Tone)

\* The same two statements for intervals of whole milliseconds inside the
\* buffer, where int(end - start) = int(end) - int(start).
WholeMs(iv) == iv[1] % SubMs = 0 /\ iv[2] % SubMs = 0
AllWholeInside ==
  \A i \in 1..Len(ov_all) : WholeMs(ov_all[i]) /\ InsideBuffer(ov_all[i])
LengthPreservedWholeMs == AllWholeInside => C4_LengthPreserved
OverlayFrameWholeMs == AllWholeInside => C5_OverlayFrame

CeilDiv(a, b) == (a + b - 1) \div b

\* C6: a readable source of duration D > 0 yields ceil(D / w) chunks with
\* ids 0..N-1 in yield order that partition [0, D) without gap or overlap;
\* all but the last last w, the last lasts D - floor(D/w)*w, or w when w
\* divides D.
C6_ExtractorPartition ==
  ex_g.st = "done" =>
    LET N == Len(ex_out)
        D == ex_g.duration
    IN /\ N = CeilDiv(D, Window)
       /\ \A i \in 1..N : ex_out[i].chunk_id = i - 1
       /\ ex_out[1].start_time = 0
       /\ ex_out[N].end_time = D
       /\ \A i \in 2..N : ex_out[i].start_time = ex_out[i - 1].end_time
       /\ \A i \in 1..(N - 1) : ChunkDur(ex_out[i]) = Window
       /\ ChunkDur(ex_out[N]) =
            IF D % Window = 0 THEN Window ELSE D - (D \div Window) * Window

C6_Witness ==
  /\ ex_g.st = "done" /\ Len(ex_out) >= 3
  /\ ex_g.duration % Window # 0

\* C7: a run whose source failed while it was opened or read assembles no
\* final track.
C7_SourceFailureFatal ==
  \A d \in DOMAIN drv : drv[d].gen.st = "failed" => drv[d].pc # "done"

\* C8: when a step of process_audio_chunk raises, the worker's step puts a
\* result that keeps the chunk's id and times and has no censored path, an
\* empty masked text and no bad words, and the worker is back at its loop
\* test.
C8_FailSoft ==
  [][\A w \in Workers :
       (wrk[w].pc = "proc" /\ wrk[w].fault \in FailStages /\ wrk'[w] # wrk[w])
       => /\ Len(results_queue') = Len(results_queue) + 1
          /\ LET res == results_queue'[Len(results_queue')]
             IN /\ res.chunk_id = wrk[w].chunk.chunk_id
                /\ res.start_time = wrk[w].chunk.start_time
                /\ res.end_time = wrk[w].chunk.end_time
                /\ res.censored_audio_path = NoPath
                /\ res.masked_text = <<>>
                /\ res.bad_words = {}
          /\ wrk'[w].pc = "head"]_vars

\* The result of chunk 0 is a failed one and the worker is processing
\* chunk 1.
C8_Witness ==
  /\ \E i \in 1..Len(results_queue) :
       /\ results_queue[i].chunk_id = 0
       /\ results_queue[i].censored_audio_path = NoPath
  /\ wrk[1].pc = "proc" /\ wrk[1].chunk.chunk_id = 1

\* C9: a worker that has left its loop holds no chunk it dequeued, and left
\* by dequeuing the sentinel.
C9_StopAtBoundary ==
  \A w \in Workers :
    Exited(w) => (wrk[w].chunk = NoneItem /\ wrk[w].pc = "broke")

\* A step of a script run through lines 276-288: only these change the
\* session flag or move a script thread out of "idle".
RequestStep ==
  \/ analysis' # analysis
  \/ \E d \in DOMAIN drv : drv[d].pc = "idle" /\ drv'[d].pc # "idle"

\* C10: a script run through lines 276-288 while is_processing is True
\* starts no worker and puts nothing on either queue; one that leaves the
\* session flag off while is_processing is False puts no sentinel and leaves
\* is_processing and both queues as they are.
C10_Idempotent ==
  [][RequestStep =>
       /\ is_processing =>
            /\ nruns' = nruns /\ wrk' = wrk
            /\ processing_queue' = processing_queue
            /\ results_queue' = results_queue
       /\ (~is_processing /\ ~analysis') =>
            /\ is_processing' = is_processing /\ nruns' = nruns /\ wrk' = wrk
            /\ processing_queue' = processing_queue
            /\ results_queue' = results_queue]_vars

\* A run is on, a script thread is idle and the session flag has been
\* switched off since the run began: requests are being handled during it.
C10_Witness ==
  /\ is_processing /\ ~analysis /\ nruns >= 1
  /\ \E d \in DOMAIN drv : drv[d].pc = "idle"
  /\ \E d \in DOMAIN drv : drv[d].pc = "get"

\* How often path p is on the work queue, and how many workers hold it.
Queued(p) ==
  Cardinality({i \in 1..Len(processing_queue) : processing_queue[i].audio_path = p})
Held(p) ==
  Cardinality({w \in Workers : wrk[w].pc = "proc" /\ wrk[w].chunk.audio_path = p})

\* C11: every chunk put on the work queue is, at any moment, queued once, or
\* held by one worker that is processing it, or has one result: it is never
\* processed twice and never has two results, whatever runs came before.
C11_AtMostOnce ==
  \A p \in submitted : Queued(p) + Held(p) + Count(p) = 1

\* Run 1 was stopped (the chunk it had extracted when it saw the flag off was
\* never submitted), run 2 followed, and chunks of both runs have a result.
C11_Witness ==
  /\ \E f \in files : f.path[1] = "raw" /\ f.path[2] = 1 /\ f.path \notin submitted
  /\ \E p \in DOMAIN produced : p[2] = 1
  /\ \E q \in DOMAIN produced : q[2] = 2

\* A step that puts a chunk (not the sentinel) on the work queue.
PutsChunk ==
  /\ Len(processing_queue') = Len(processing_queue) + 1
  /\ processing_queue'[Len(processing_queue')] # NoneItem

\* C12: no chunk is put on the work queue while the session flag is off (a
\* stop request has been made and no start request since).
C12_NoSubmissionAfterStop == [][PutsChunk => analysis]_vars

\* C13: when a run has completed (its track is assembled), none of the
\* per-chunk temporary files of that run, raw or censored, exists any more.
C13_NoOrphanFiles ==
  \A d \in DOMAIN drv :
    drv[d].pc = "done" => \A f \in files : f.path[2] # drv[d].run

\* The steps of script thread d inside a run (lines 298-326).
DrvRun(d) ==
  \/ DrvYield(d) \/ DrvSubmit(d) \/ DrvBreak(d) \/ DrvExhausted(d)
  \/ DrvSourceFail(d) \/ DrvGet(d) \/ DrvTimeout(d) \/ DrvCombine(d)
  \/ DrvFinish(d)

\* The script thread keeps running once it has started a run; nothing is
\* assumed of the worker threads, which may stop at any point.
SpecLive == Spec /\ \A d \in Drivers : WF_vars(DrvRun(d))

\* C14: a script thread that has started a run reaches the assembly of the
\* final track, whatever the workers do or fail to do.
C14_DriverTerminates ==
  \A d \in Drivers : (drv[d].pc # "idle") ~> (drv[d].pc = "done")

\* A run has reached assembly although no result was ever produced for the
\* chunks it submitted.
C14_Witness ==
  /\ \E d \in Drivers : drv[d].pc = "done"
  /\ submitted # {} /\ produced = <<>>

\* The profane words of the transcription, with their offsets in ms.
StampProfane == ProfaneOnly(st_words, PipelineDetector)

\* C15: the intervals passed to beep_over_intervals are the profane words'
\* chunk-relative offsets in milliseconds, (w.start * 1000, w.end * 1000).
C15_RoundTrip ==
  st_pc = "passed" =>
    st_ivs = [i \in 1..Len(StampProfane) |->
                <<Times1000(StampProfane[i].start), Times1000(StampProfane[i].end)>>]

\* The round trip is exact in the first chunk (start_time = 0), and in the
\* claim's example: a word at 1.2 s to 1.5 s of chunk 1 of a 12 s source.
RoundTripFirstChunk == st_chunk.start_time = 0 => C15_RoundTrip
RoundTripExample ==
  (st_pc = "passed" /\ st_chunk.chunk_id = 1
     /\ st_words = <<[word |-> "lan", start |-> 1200 * SubMs, end |-> 1500 * SubMs]>>)
  => st_ivs = <<<<1200 * SubMs, 1500 * SubMs>>>>

\* The words of the vocabulary whose lower-cased form is in the lexicon.
LexiconWords == {"Pompa", "pompa"}

\* C16: is_profane returns a boolean (it never raises); True for a word whose
\* lower-cased form is in the lexicon, whatever the classifier does; for any
\* other word, True exactly when the classifier returns a PROFANITY score of
\* at least THRESHOLD.
C16_LexiconPrecedence ==
  pf_pc = "returned" =>
    /\ pf_out \in BOOLEAN
    /\ pf_word \in LexiconWords => pf_out = TRUE
    /\ pf_word \notin LexiconWords =>
         (pf_out <=> (pf_score \in 0..100 /\ pf_score >= THRESHOLD))

\* A capitalised lexicon word on which the classifier raised.
C16_Witness ==
  pf_pc = "returned" /\ pf_word = "Pompa" /\ pf_score = Raises /\ pf_out = TRUE

\* Worker thread w is running: started and not yet returned.
Alive(w) == wrk[w].pc \in {"head", "get", "proc"}

\* Every chunk of the video was put on the work queue in run r: the run
\* read its source to the end and was not stopped.
FullySubmitted(r) ==
  \A i \in 1..Len(AllChunks(r, GenFresh(video))) :
    AllChunks(r, GenFresh(video))[i].audio_path \in submitted

\* C17: when is_processing is False and every script thread has assembled
\* its track or returned, no worker thread is alive (here: after runs that
\* submitted every chunk).
C17_IdleAfterWorkersExit ==
  (/\ ~is_processing /\ nruns >= 1
   /\ \A r \in 1..nruns : FullySubmitted(r)
   /\ \A d \in DOMAIN drv : drv[d].pc \in {"done", "idle"})
  => \A w \in Workers : ~Alive(w)

\* C18: at most one worker thread is alive at a time (here: when every
\* earlier run submitted every chunk).
C18_StaticWorkerCount ==
  (\A r \in 1..(nruns - 1) : FullySubmitted(r))
    => Cardinality({w \in Workers : Alive(w)}) <= 1

\* C19: once a run has ended and no script thread or worker is running, the
\* work queue is empty (here: after runs that submitted every chunk).
C19_WorkQueueClean ==
  (Quiescent /\ nruns >= 1 /\ \A r \in 1..nruns : FullySubmitted(r))
    => processing_queue = <<>>

\* A step in which script thread d takes a result off the result queue.
TakesResult(d) ==
  /\ drv[d].pc = "get" /\ drv'[d].pc = "next"
  /\ results_queue # <<>> /\ results_queue' = QueueGet(results_queue)

\* C20: the result a script thread takes after it has put a chunk is the
\* result of that chunk.
C20_ResultsPaired ==
  [][\A d \in DOMAIN drv :
       TakesResult(d) =>
         Head(results_queue).audio_path = drv[d].chunk.audio_path]_vars
====
